---- MODULE Spec2Model ----
(***************************************************************************)
(* Model of the two publishers of highlight-hero-creator:                  *)
(*   upload_to_instagram (src/instagram_uploader.py)                       *)
(*   upload_to_youtube   (src/youtube_uploader.py)                         *)
(* Several invocations run side by side; every blocking remote call is a   *)
(* pair of steps (request issued, answer handled), so the remote calls of  *)
(* different invocations interleave freely.  The remote platforms answer   *)
(* with any status, any body, or a transport failure.                      *)
(***************************************************************************)
EXTENDS Integers, Sequences, FiniteSets, TLC

\* Number of invocations running side by side.
NumCalls == 2

Calls == 1..NumCalls

(***************************************************************************)
(* Python values                                                           *)
(***************************************************************************)
None == [t |-> "null"]
JStr(s) == [t |-> "str", s |-> s]
JNum(n) == [t |-> "num", n |-> n]
JBool(b) == [t |-> "bool", b |-> b]
JArr(items) == [t |-> "arr", items |-> items]
\* a dict is the set of its <<key, value>> members
JObj(members) == [t |-> "obj", members |-> members]
\* the text is not a JSON document
JInvalid == [t |-> "invalid"]

Exc(type, args) == [t |-> "exc", type |-> type, args |-> args]
Response(status_code, text) ==
    [t |-> "response", status_code |-> status_code, text |-> text]

\* outcome of one invocation as its caller sees it
Pending == [kind |-> "pending"]
Returned(v) == [kind |-> "returned", value |-> v]
Raised(e) == [kind |-> "raised", exc |-> e]


\* variant: the failure is caught and re-raised as a generic upload error
propagate_wrapped(e) == Raised(Exc("Exception", <<"upload failed", e.type>>))

\* neither function has a try/except: an exception raised by a layer
\* below leaves the function as it is
propagate(e) == Raised(e)

(***************************************************************************)
(* What the remote side can answer                                         *)
(***************************************************************************)
HTTP_OK == 200
StatusCodes == {200, 500}

CreateBodies ==
    { "{}",
      "{\"id\": \"17895\"}",
      "{\"id\": \"17896\"}",
      "{\"id\": null}",
      "{\"id\": \"\"}",
      "{\"id\": 0}",
      "{\"id\": false}",
      "{\"error\": \"Invalid OAuth access token\"}",
      "[]",
      "<html>502 Bad Gateway</html>" }

PublishBodies ==
    { "{\"id\": \"final123\"}",
      "{}",
      "<html>502 Bad Gateway</html>" }

\* failures requests.post itself raises (no response at all)
TransportErrors == { Exc("ConnectionError", <<"connection refused">>) }

\* failures of the Google layers, by the call that raises them
CredentialErrors == { Exc("FileNotFoundError", <<"service-account.json">>),
                      Exc("ValueError", <<"malformed service account info">>) }
BuildErrors == { Exc("UnknownApiNameOrVersion", <<"youtube", "v3">>) }
MediaErrors == { Exc("FileNotFoundError", <<"clip.mp4">>) }
ExecuteErrors == { Exc("HttpError", <<"403", "quotaExceeded">>),
                   Exc("RefreshError", <<"invalid_grant">>) }

\* bodies of the insert answer, as the client library hands them over
InsertResponses ==
    { JObj({<<"id", JStr("yt-abc")>>}),
      JObj({<<"id", JStr("yt-def")>>, <<"kind", JStr("youtube#video")>>}),
      JObj({<<"kind", JStr("youtube#video")>>}) }

(***************************************************************************)
(* Arguments the callers pass                                              *)
(***************************************************************************)
VideoUrls == {"https://cdn.example/clip.mp4"}
AccessTokens == {"token-A"}
IgUserIds == {"1001"}

VideoFiles == {"clip.mp4"}
Titles == {"Highlights", "Best of"}
Descriptions == {"Weekly highlights"}
CredentialFiles == {"service-account.json"}

NoArgs == [fn |-> "none"]

YtArgs(video_path, title, description, credentials_json) ==
    [fn |-> "upload_to_youtube", video_path |-> video_path, title |-> title,
     description |-> description, credentials_json |-> credentials_json]

IgArgs(video_path, access_token, ig_user_id) ==
    [fn |-> "upload_to_instagram", video_path |-> video_path,
     access_token |-> access_token, ig_user_id |-> ig_user_id]

(***************************************************************************)
(* upload_to_instagram, the pure parts                                     *)
(***************************************************************************)
\* res.json(): the body text parsed as JSON
json(res) ==
    CASE res.text = "{}" -> JObj({})
      [] res.text = "{\"id\": \"17895\"}" -> JObj({<<"id", JStr("17895")>>})
      [] res.text = "{\"id\": \"17896\"}" -> JObj({<<"id", JStr("17896")>>})
      [] res.text = "{\"id\": null}" -> JObj({<<"id", None>>})
      [] res.text = "{\"id\": \"\"}" -> JObj({<<"id", JStr("")>>})
      [] res.text = "{\"id\": 0}" -> JObj({<<"id", JNum(0)>>})
      [] res.text = "{\"id\": false}" -> JObj({<<"id", JBool(FALSE)>>})
      [] res.text = "{\"id\": \"final123\"}" ->
             JObj({<<"id", JStr("final123")>>})
      [] res.text = "{\"error\": \"Invalid OAuth access token\"}" ->
             JObj({<<"error", JStr("Invalid OAuth access token")>>})
      [] res.text = "[]" -> JArr(<<>>)
      [] OTHER -> JInvalid

has_key(d, key) == \E m \in d.members : m[1] = key

\* d.get(key): the value, or None when the key is absent
get(d, key) ==
    IF has_key(d, key)
    THEN (CHOOSE m \in d.members : m[1] = key)[2]
    ELSE None


\* variant: only None counts as "no id" (`container_id is None`)
truthy_only_none(v) == v.t # "null"

\* Python truth value, as `not container_id` tests it
truthy(v) ==
    CASE v.t = "null" -> FALSE
      [] v.t = "str" -> v.s # ""
      [] v.t = "num" -> v.n # 0
      [] v.t = "bool" -> v.b
      [] v.t = "arr" -> v.items # <<>>
      [] v.t = "obj" -> v.members # {}

media_url(ig_user_id) ==
    "https://graph-video.facebook.com/v17.0/" \o ig_user_id \o "/media"

media_publish_url(ig_user_id) ==
    "https://graph.facebook.com/v17.0/" \o ig_user_id \o "/media_publish"

create_request(a) ==
    [url |-> media_url(a.ig_user_id),
     data |-> [video_url |-> a.video_path,
               caption |-> "Posted via AI backend!",
               access_token |-> a.access_token]]


\* variant: the account id is sent where the container id belongs
publish_request_wrong_id(a, cid) ==
    [url |-> media_publish_url(a.ig_user_id),
     data |-> [creation_id |-> JStr(a.ig_user_id),
               access_token |-> a.access_token]]


publish_request(a, cid) ==
    [url |-> media_publish_url(a.ig_user_id),
     data |-> [creation_id |-> cid, access_token |-> a.access_token]]


\* variant: the `if not container_id` test is missing
after_create_unchecked(res) ==
    LET body == json(res) IN
    IF body = JInvalid
    THEN [raise |-> Exc("JSONDecodeError", <<res.text>>)]
    ELSE IF body.t # "obj"
    THEN [raise |-> Exc("AttributeError", <<"get">>)]
    ELSE [container_id |-> get(body, "id")]

\* variant: a non-200 creation answer is rejected as well
after_create_status_checked(res) ==
    LET body == json(res) IN
    IF body = JInvalid
    THEN [raise |-> Exc("JSONDecodeError", <<res.text>>)]
    ELSE IF body.t # "obj"
    THEN [raise |-> Exc("AttributeError", <<"get">>)]
    ELSE IF res.status_code # HTTP_OK \/ ~truthy(get(body, "id"))
    THEN [raise |-> Exc("Exception", <<"Error creating container", res.text>>)]
    ELSE [container_id |-> get(body, "id")]

\* lines 11-14: what the creation answer leads to
after_create(res) ==
    LET body == json(res) IN
    IF body = JInvalid
    THEN [raise |-> Exc("JSONDecodeError", <<res.text>>)]
    ELSE IF body.t # "obj"
    THEN [raise |-> Exc("AttributeError", <<"get">>)]
    ELSE IF ~truthy(get(body, "id"))
    THEN [raise |-> Exc("Exception", <<"Error creating container", res.text>>)]
    ELSE [container_id |-> get(body, "id")]


\* variant: the status test of line 22 is missing
after_publish_unchecked(res) ==
    IF json(res) = JInvalid
    THEN Raised(Exc("JSONDecodeError", <<res.text>>))
    ELSE Returned(json(res))

\* variant: only the id of the publish answer is returned
after_publish_id_only(res) ==
    IF res.status_code # HTTP_OK
    THEN Raised(Exc("Exception", <<"Error publishing video", res.text>>))
    ELSE IF json(res) = JInvalid
    THEN Raised(Exc("JSONDecodeError", <<res.text>>))
    ELSE Returned(get(json(res), "id"))

\* lines 22-25: what the publish answer leads to
after_publish(res) ==
    IF res.status_code # HTTP_OK
    THEN Raised(Exc("Exception", <<"Error publishing video", res.text>>))
    ELSE IF json(res) = JInvalid
    THEN Raised(Exc("JSONDecodeError", <<res.text>>))
    ELSE Returned(json(res))

(***************************************************************************)
(* upload_to_youtube, the pure parts                                       *)
(***************************************************************************)
scopes == <<"https://www.googleapis.com/auth/youtube.upload">>

\* lines 7-9: the scoped credential object
from_service_account_file(credentials_json) ==
    [t |-> "credentials", file |-> credentials_json, scopes |-> scopes]

\* line 11: the client
build(creds) ==
    [t |-> "client", serviceName |-> "youtube", version |-> "v3",
     credentials |-> creds]

\* lines 13-27: the insert request
insert_request(a, client) ==
    [url |-> "youtube.videos.insert",
     data |-> [part |-> "snippet,status",
               title |-> a.title,
               description |-> a.description,
               tags |-> <<"AI", "Video", "Generated">>,
               categoryId |-> "22",
               privacyStatus |-> "unlisted",
               media_body |-> a.video_path,
               credentials |-> client.credentials]]


\* variant: the whole insert answer is returned
after_execute_whole(response) ==
    IF has_key(response, "id")
    THEN Returned(response)
    ELSE Raised(Exc("KeyError", <<"id">>))

\* line 30: response["id"]
after_execute(response) ==
    IF has_key(response, "id")
    THEN Returned(get(response, "id"))
    ELSE Raised(Exc("KeyError", <<"id">>))

(***************************************************************************)
(* State                                                                   *)
(***************************************************************************)
VARIABLES
    pc,            \* where each invocation stands
    args,          \* the arguments of each invocation
    res,           \* local `res` of upload_to_instagram
    container_id,  \* local `container_id` of upload_to_instagram
    credentials,   \* local `credentials` of upload_to_youtube
    youtube,       \* local `youtube` of upload_to_youtube
    request,       \* local `request` of upload_to_youtube
    sent,          \* requests each invocation has issued, in order
    received,      \* what the remote layer gave back to each invocation
    result         \* what the caller of each invocation got

vars == <<pc, args, res, container_id, credentials, youtube, request,
          sent, received, result>>

yt_locals == <<credentials, youtube, request>>
ig_locals == <<res, container_id>>

Init ==
    /\ pc = [i \in Calls |-> "idle"]
    /\ args = [i \in Calls |-> NoArgs]
    /\ res = [i \in Calls |-> None]
    /\ container_id = [i \in Calls |-> None]
    /\ credentials = [i \in Calls |-> None]
    /\ youtube = [i \in Calls |-> None]
    /\ request = [i \in Calls |-> None]
    /\ sent = [i \in Calls |-> <<>>]
    /\ received = [i \in Calls |-> <<>>]
    /\ result = [i \in Calls |-> Pending]

(***************************************************************************)
(* upload_to_instagram                                                     *)
(***************************************************************************)
\* the caller enters upload_to_instagram
CallInstagram(i) ==
    /\ pc[i] = "idle"
    /\ \E v \in VideoUrls, tok \in AccessTokens, u \in IgUserIds :
           args' = [args EXCEPT ![i] = IgArgs(v, tok, u)]
    /\ pc' = [pc EXCEPT ![i] = "ig_create"]
    /\ UNCHANGED <<res, container_id, yt_locals, sent, received, result>>

\* line 10: the creation request goes out
IgPostCreate(i) ==
    /\ pc[i] = "ig_create"
    /\ sent' = [sent EXCEPT ![i] = Append(@, create_request(args[i]))]
    /\ pc' = [pc EXCEPT ![i] = "ig_wait_create"]
    /\ UNCHANGED <<args, res, container_id, yt_locals, received, result>>


\* variant: a failed creation request is issued again
IgCreateTransportError_retry(i) ==
    /\ pc[i] = "ig_wait_create"
    /\ \E e \in TransportErrors :
           received' = [received EXCEPT ![i] = Append(@, e)]
    /\ pc' = [pc EXCEPT ![i] = "ig_create"]
    /\ UNCHANGED <<args, res, container_id, yt_locals, sent, result>>

\* line 10 raises: requests.post fails without a response
IgCreateTransportError(i) ==
    /\ pc[i] = "ig_wait_create"
    /\ \E e \in TransportErrors :
           /\ received' = [received EXCEPT ![i] = Append(@, e)]
           /\ result' = [result EXCEPT ![i] = propagate(e)]
    /\ pc' = [pc EXCEPT ![i] = "done"]
    /\ UNCHANGED <<args, res, container_id, yt_locals, sent>>

\* lines 10-14: the creation answer arrives and is inspected
IgCreateResponse(i) ==
    /\ pc[i] = "ig_wait_create"
    /\ \E s \in StatusCodes, b \in CreateBodies :
         LET r == Response(s, b)
             o == after_create(r)
         IN /\ received' = [received EXCEPT ![i] = Append(@, r)]
            /\ res' = [res EXCEPT ![i] = r]
            /\ IF "raise" \in DOMAIN o
               THEN /\ result' = [result EXCEPT ![i] = Raised(o.raise)]
                    /\ pc' = [pc EXCEPT ![i] = "done"]
                    /\ UNCHANGED container_id
               ELSE /\ container_id' =
                           [container_id EXCEPT ![i] = o.container_id]
                    /\ pc' = [pc EXCEPT ![i] = "ig_publish"]
                    /\ UNCHANGED result
    /\ UNCHANGED <<args, yt_locals, sent>>


\* variant: the container id lives in one place shared by all invocations
IgPostPublish_shared(i) ==
    /\ pc[i] = "ig_publish"
    /\ \E j \in Calls :
          /\ container_id[j] # None
          /\ sent' = [sent EXCEPT
                  ![i] = Append(@, publish_request(args[i], container_id[j]))]
    /\ pc' = [pc EXCEPT ![i] = "ig_wait_publish"]
    /\ UNCHANGED <<args, res, container_id, yt_locals, received, result>>

\* lines 16-20: the publish request goes out
IgPostPublish(i) ==
    /\ pc[i] = "ig_publish"
    /\ sent' = [sent EXCEPT
                  ![i] = Append(@, publish_request(args[i], container_id[i]))]
    /\ pc' = [pc EXCEPT ![i] = "ig_wait_publish"]
    /\ UNCHANGED <<args, res, container_id, yt_locals, received, result>>

\* line 17 raises: requests.post fails without a response
IgPublishTransportError(i) ==
    /\ pc[i] = "ig_wait_publish"
    /\ \E e \in TransportErrors :
           /\ received' = [received EXCEPT ![i] = Append(@, e)]
           /\ result' = [result EXCEPT ![i] = propagate(e)]
    /\ pc' = [pc EXCEPT ![i] = "done"]
    /\ UNCHANGED <<args, res, container_id, yt_locals, sent>>

\* lines 17-25: the publish answer arrives and decides the outcome
IgPublishResponse(i) ==
    /\ pc[i] = "ig_wait_publish"
    /\ \E s \in StatusCodes, b \in PublishBodies :
         LET r == Response(s, b)
         IN /\ received' = [received EXCEPT ![i] = Append(@, r)]
            /\ res' = [res EXCEPT ![i] = r]
            /\ result' = [result EXCEPT ![i] = after_publish(r)]
    /\ pc' = [pc EXCEPT ![i] = "done"]
    /\ UNCHANGED <<args, container_id, yt_locals, sent>>

(***************************************************************************)
(* upload_to_youtube                                                       *)
(***************************************************************************)
\* the caller enters upload_to_youtube
CallYoutube(i) ==
    /\ pc[i] = "idle"
    /\ \E v \in VideoFiles, ti \in Titles, d \in Descriptions,
          c \in CredentialFiles :
           args' = [args EXCEPT ![i] = YtArgs(v, ti, d, c)]
    /\ pc' = [pc EXCEPT ![i] = "yt_credentials"]
    /\ UNCHANGED <<ig_locals, yt_locals, sent, received, result>>

\* an exception raised by the call at `at` ends the invocation
YtRaise(i, at, errors) ==
    /\ pc[i] = at
    /\ \E e \in errors :
           /\ received' = [received EXCEPT ![i] = Append(@, e)]
           /\ result' = [result EXCEPT ![i] = propagate(e)]
    /\ pc' = [pc EXCEPT ![i] = "done"]
    /\ UNCHANGED <<args, ig_locals, yt_locals, sent>>

\* lines 7-9: the key file is loaded
YtLoadCredentials(i) ==
    /\ pc[i] = "yt_credentials"
    /\ credentials' = [credentials EXCEPT
           ![i] = from_service_account_file(args[i].credentials_json)]
    /\ pc' = [pc EXCEPT ![i] = "yt_build"]
    /\ UNCHANGED <<args, ig_locals, youtube, request, sent, received, result>>

\* lines 7-9 raise
YtLoadCredentialsError(i) == YtRaise(i, "yt_credentials", CredentialErrors)

\* line 11: the client is built
YtBuild(i) ==
    /\ pc[i] = "yt_build"
    /\ youtube' = [youtube EXCEPT ![i] = build(credentials[i])]
    /\ pc' = [pc EXCEPT ![i] = "yt_insert"]
    /\ UNCHANGED <<args, ig_locals, credentials, request, sent, received,
                   result>>

\* line 11 raises
YtBuildError(i) == YtRaise(i, "yt_build", BuildErrors)

\* lines 13-27: the insert request is put together, nothing is sent yet
YtInsert(i) ==
    /\ pc[i] = "yt_insert"
    /\ request' = [request EXCEPT ![i] = insert_request(args[i], youtube[i])]
    /\ pc' = [pc EXCEPT ![i] = "yt_execute"]
    /\ UNCHANGED <<args, ig_locals, credentials, youtube, sent, received,
                   result>>

\* line 26 raises: MediaFileUpload cannot open the video
YtInsertError(i) == YtRaise(i, "yt_insert", MediaErrors)

\* line 29: the insert request goes out
YtExecute(i) ==
    /\ pc[i] = "yt_execute"
    /\ sent' = [sent EXCEPT ![i] = Append(@, request[i])]
    /\ pc' = [pc EXCEPT ![i] = "yt_wait_execute"]
    /\ UNCHANGED <<args, ig_locals, yt_locals, received, result>>

\* line 29 raises: transport or authorization failure
YtExecuteError(i) == YtRaise(i, "yt_wait_execute", ExecuteErrors)

\* lines 29-30: the insert answer arrives
YtExecuteResponse(i) ==
    /\ pc[i] = "yt_wait_execute"
    /\ \E r \in InsertResponses :
           /\ received' = [received EXCEPT ![i] = Append(@, r)]
           /\ result' = [result EXCEPT ![i] = after_execute(r)]
    /\ pc' = [pc EXCEPT ![i] = "done"]
    /\ UNCHANGED <<args, ig_locals, yt_locals, sent>>

Next ==
    \E i \in Calls :
        \/ CallInstagram(i)
        \/ IgPostCreate(i)
        \/ IgCreateTransportError(i)
        \/ IgCreateResponse(i)
        \/ IgPostPublish(i)
        \/ IgPublishTransportError(i)
        \/ IgPublishResponse(i)
        \/ CallYoutube(i)
        \/ YtLoadCredentials(i)
        \/ YtLoadCredentialsError(i)
        \/ YtBuild(i)
        \/ YtBuildError(i)
        \/ YtInsert(i)
        \/ YtInsertError(i)
        \/ YtExecute(i)
        \/ YtExecuteError(i)
        \/ YtExecuteResponse(i)

Spec == Init /\ [][Next]_vars

(***************************************************************************)
(* Vocabulary of the properties                                            *)
(***************************************************************************)
IsIg(i) == args[i].fn = "upload_to_instagram"
IsYt(i) == args[i].fn = "upload_to_youtube"

\* number of requests invocation i has issued to url
Requests(i, url) == Cardinality({k \in DOMAIN sent[i] : sent[i][k].url = url})
CreateCount(i) == Requests(i, media_url(args[i].ig_user_id))
PublishCount(i) == Requests(i, media_publish_url(args[i].ig_user_id))
ExecuteCount(i) == Requests(i, "youtube.videos.insert")

\* invocation i has got an HTTP answer to its k-th request
Answered(i, k) == Len(received[i]) >= k /\ received[i][k].t = "response"
\* that answer is a JSON object
AnsweredObject(i, k) == Answered(i, k) /\ json(received[i][k]).t = "obj"
\* the creation answer of i is a JSON object with / without the key `id`
CreationHasId(i) ==
    IsIg(i) /\ AnsweredObject(i, 1) /\ has_key(json(received[i][1]), "id")
CreationLacksId(i) ==
    IsIg(i) /\ AnsweredObject(i, 1) /\ ~has_key(json(received[i][1]), "id")
CreationId(i) == get(json(received[i][1]), "id")
\* the values Python counts as false
FalsyValues == {None, JStr(""), JNum(0), JBool(FALSE), JArr(<<>>), JObj({})}
\* the creation answer of i carries an identifier
ContainerReturned(i) == CreationHasId(i) /\ CreationId(i) \notin FalsyValues
\* invocation i has failed: a layer raised, or the function did
HasFailed(i) ==
    \/ result[i].kind = "raised"
    \/ \E k \in DOMAIN received[i] : received[i][k].t = "exc"

CreationError(text) == Exc("Exception", <<"Error creating container", text>>)
PublishError(text) == Exc("Exception", <<"Error publishing video", text>>)

\* the states of section 4 of the specification
State(i) ==
    CASE result[i].kind = "returned" -> "Succeeded"
      [] result[i].kind = "raised" -> "Failed"
      [] container_id[i] # None -> "ContainerCreated"
      [] OTHER -> "Pending"

C2_PublishErrorCarriesPublishText ==
    \A i \in Calls :
        (IsIg(i) /\ ContainerReturned(i) /\ Answered(i, 2)
           /\ received[i][2].status_code # HTTP_OK) =>
            /\ result[i] = Raised(PublishError(received[i][2].text))
            /\ result[i].kind # "returned"

C2_Witness ==
    \E i \in Calls :
        /\ IsIg(i) /\ ContainerReturned(i) /\ Answered(i, 2)
        /\ received[i][2].status_code = 500
        /\ received[i][2].text # received[i][1].text
        /\ result[i].kind = "raised"

(***************************************************************************)
(* C3, as stated: with a container id on creation and status 200 on        *)
(* publish, upload_to_instagram returns the parsed publish answer, and the *)
(* returned value contains a platform id.                                  *)
(***************************************************************************)
C3_Original ==
    \A i \in Calls :
        (IsIg(i) /\ ContainerReturned(i) /\ Answered(i, 2)
           /\ received[i][2].status_code = HTTP_OK) =>
            /\ result[i] = Returned(json(received[i][2]))
            /\ result[i].value.t = "obj"
            /\ has_key(result[i].value, "id")

(***************************************************************************)
(* C3, amended: with a container id on creation and status 200 on publish, *)
(* upload_to_instagram returns the parsed publish answer as it is when the *)
(* body is JSON, with or without an `id` in it, and fails with the         *)
(* parser's error when the body is not JSON.                               *)
(***************************************************************************)
C3_ReturnsParsedPublishAnswer ==
    \A i \in Calls :
        (IsIg(i) /\ ContainerReturned(i) /\ Answered(i, 2)
           /\ received[i][2].status_code = HTTP_OK) =>
            IF json(received[i][2]) = JInvalid
            THEN result[i] =
                     Raised(Exc("JSONDecodeError", <<received[i][2].text>>))
            ELSE result[i] = Returned(json(received[i][2]))

C3_Witness ==
    \E i \in Calls :
        /\ IsIg(i) /\ ContainerReturned(i) /\ Answered(i, 2)
        /\ received[i][2].status_code = HTTP_OK
        /\ result[i] = Returned(JObj({<<"id", JStr("final123")>>}))

(***************************************************************************)
(* C4: a publish request is issued only after the creation request of the  *)
(* same invocation has returned an identifier, its creation_id is exactly  *)
(* that identifier, and an Instagram invocation becomes Succeeded only     *)
(* from ContainerCreated, never from Pending.                              *)
(***************************************************************************)
C4_PublishFollowsCreation ==
    \A i \in Calls :
        (IsIg(i) /\ PublishCount(i) > 0) =>
            /\ Len(sent[i]) = 2
            /\ sent[i][1] = create_request(args[i])
            /\ ContainerReturned(i)
            /\ sent[i][2].url = media_publish_url(args[i].ig_user_id)
            /\ sent[i][2].data.creation_id = CreationId(i)

C4_SucceededFromContainerCreated ==
    \A i \in Calls :
        (IsIg(i) /\ State(i) # "Succeeded" /\ State(i)' = "Succeeded") =>
            State(i) = "ContainerCreated"

\* C4: publish follows the invocation's own successful creation, in every
\* state and across every step
C4_PublishOnlyAfterContainer ==
    /\ []C4_PublishFollowsCreation
    /\ [][C4_SucceededFromContainerCreated]_vars

C4_Witness ==
    \E i \in Calls :
        /\ IsIg(i) /\ State(i) = "Succeeded"
        /\ PublishCount(i) = 1
        /\ sent[i][2].data.creation_id = JStr("17895")

(***************************************************************************)
(* C5: no retries.  An invocation requests each endpoint at most once      *)
(* (creation and publish for Instagram, insert for YouTube), and once it   *)
(* has failed it issues no further request.                                *)
(***************************************************************************)
C5_AtMostOnce ==
    \A i \in Calls :
        /\ IsIg(i) => /\ CreateCount(i) <= 1
                      /\ PublishCount(i) <= 1
                      /\ Len(sent[i]) = CreateCount(i) + PublishCount(i)
                      /\ Len(received[i]) <= Len(sent[i])
        /\ IsYt(i) => /\ ExecuteCount(i) <= 1
                      /\ Len(sent[i]) = ExecuteCount(i)

C5_NothingAfterFailure ==
    \A i \in Calls :
        HasFailed(i) => sent'[i] = sent[i]

\* C5: each endpoint at most once, and nothing is sent after a failure
C5_NoRetry == []C5_AtMostOnce /\ [][C5_NothingAfterFailure]_vars

C5_Witness ==
    \E i, j \in Calls :
        /\ IsIg(i) /\ Len(received[i]) = 1 /\ received[i][1].t = "exc"
        /\ pc[i] = "done" /\ CreateCount(i) = 1
        /\ IsYt(j) /\ result[j].kind = "raised" /\ ExecuteCount(j) = 1

(***************************************************************************)
(* C6: when credential loading, client construction and the insert call    *)
(* succeed, upload_to_youtube returns exactly the `id` of the insert       *)
(* answer; the caller sees either that id or a failure, and nothing before *)
(* the invocation has ended.                                               *)
(***************************************************************************)
C6_ReturnsInsertId ==
    \A i \in Calls :
        IsYt(i) =>
            /\ pc[i] # "done" => result[i] = Pending
            /\ pc[i] = "done" => result[i].kind \in {"returned", "raised"}
            /\ result[i].kind = "returned" =>
                   /\ Len(received[i]) = 1
                   /\ received[i][1].t = "obj"
                   /\ has_key(received[i][1], "id")
                   /\ result[i].value = get(received[i][1], "id")
            /\ (Len(received[i]) = 1 /\ received[i][1].t = "obj"
                  /\ has_key(received[i][1], "id")) =>
                   result[i] = Returned(get(received[i][1], "id"))

C6_Witness ==
    \E i \in Calls :
        /\ IsYt(i)
        /\ received[i] =
             <<JObj({<<"id", JStr("yt-def")>>,
                     <<"kind", JStr("youtube#video")>>})>>
        /\ result[i] = Returned(JStr("yt-def"))

(***************************************************************************)
(* C7: a failure raised while upload_to_youtube loads the credential,      *)
(* builds the client or executes the insert request reaches the caller as  *)
(* the very error value the layer raised, and when credential loading      *)
(* fails no upload request is executed.                                    *)
(***************************************************************************)
C7_FailurePropagatesUnchanged ==
    \A i \in Calls :
        IsYt(i) =>
            /\ (Len(received[i]) = 1 /\ received[i][1].t = "exc") =>
                   /\ result[i] = Raised(received[i][1])
                   /\ pc[i] = "done"
            /\ (pc[i] = "done" /\ credentials[i] = None) =>
                   /\ result[i].kind = "raised"
                   /\ result[i].exc \in CredentialErrors
                   /\ ExecuteCount(i) = 0
                   /\ sent[i] = <<>>

C7_Witness ==
    \E i, j \in Calls :
        /\ IsYt(i) /\ pc[i] = "done" /\ credentials[i] = None
        /\ IsYt(j) /\ result[j].kind = "raised"
        /\ result[j].exc \in ExecuteErrors

(***************************************************************************)
(* C8: invocations running side by side share nothing.  Two invocations    *)
(* with equal arguments that got equal answers have equal outcomes and     *)
(* issued equal requests, a step of one invocation changes nothing of any  *)
(* other, and the creation_id an Instagram invocation publishes is the     *)
(* container id its own creation request returned.                         *)
(***************************************************************************)
Finished(i) == pc[i] = "done"

Local(i) ==
    <<pc[i], args[i], res[i], container_id[i], credentials[i], youtube[i],
      request[i], sent[i], received[i], result[i]>>

C8_OwnInputsDecide ==
    \A i, j \in Calls :
        (Finished(i) /\ Finished(j) /\ args[i] = args[j]
           /\ received[i] = received[j]) =>
            /\ result[i] = result[j]
            /\ sent[i] = sent[j]

C8_OwnContainerId ==
    \A i \in Calls :
        (IsIg(i) /\ PublishCount(i) > 0) =>
            /\ ContainerReturned(i)
            /\ sent[i][Len(sent[i])].data.creation_id = CreationId(i)

C8_StepsAreLocal ==
    \A i, j \in Calls :
        (i # j /\ Local(i)' # Local(i)) => Local(j)' = Local(j)

\* C8: outcomes follow from own inputs, steps are local, the published
\* creation_id is the invocation's own
C8_NoSharedState ==
    /\ [](C8_OwnInputsDecide /\ C8_OwnContainerId)
    /\ [][C8_StepsAreLocal]_vars

C8_Witness ==
    \E i, j \in Calls :
        /\ i # j /\ IsIg(i) /\ IsIg(j)
        /\ PublishCount(i) = 1 /\ PublishCount(j) = 1
        /\ ContainerReturned(i) /\ ContainerReturned(j)
        /\ CreationId(i) # CreationId(j)
        /\ Finished(i) /\ ~Finished(j)

(***************************************************************************)
(* C9: the status of the creation answer is never looked at.  Whenever     *)
(* the creation answer carries an identifier, with status 200 or not, the  *)
(* invocation goes on to publish with that identifier, and the outcome is  *)
(* decided by the publish answer alone.                                    *)
(***************************************************************************)
C9_CreationStatusIgnored ==
    /\ \A i \in Calls :
         ContainerReturned(i) =>
           /\ container_id[i] = CreationId(i)
           /\ pc[i] \in {"ig_publish", "ig_wait_publish", "done"}
           /\ pc[i] # "ig_publish" =>
                 /\ PublishCount(i) = 1
                 /\ sent[i][2] = publish_request(args[i], CreationId(i))
           /\ Len(received[i]) = 1 => result[i] = Pending
    /\ \A i, j \in Calls :
         (ContainerReturned(i) /\ ContainerReturned(j)
            /\ Len(received[i]) = 2 /\ Len(received[j]) = 2
            /\ received[i][2] = received[j][2]) =>
             result[i] = result[j]

C9_Witness ==
    \E i, j \in Calls :
        /\ ContainerReturned(i) /\ received[i][1].status_code = 500
        /\ ContainerReturned(j) /\ received[j][1].status_code = 200
        /\ CreationId(i) # CreationId(j)
        /\ result[i].kind = "returned" /\ result[j] = result[i]

(***************************************************************************)
(* C10: a creation answer whose `id` is present but falsy (null, "", 0,    *)
(* false) is handled like a missing id: creation error with the text of    *)
(* the creation answer, no publish request.  Every truthy id leads to      *)
(* exactly one publish request.                                            *)
(***************************************************************************)
C10_FalsyIdIsMissingId ==
    \A i \in Calls :
        CreationHasId(i) =>
            IF CreationId(i) \notin {None, JStr(""), JNum(0), JBool(FALSE)}
            THEN /\ result[i] # Raised(CreationError(received[i][1].text))
                 /\ pc[i] = "ig_publish" \/ PublishCount(i) = 1
                 /\ pc[i] = "ig_publish" => PublishCount(i) = 0
            ELSE /\ pc[i] = "done"
                 /\ result[i] = Raised(CreationError(received[i][1].text))
                 /\ PublishCount(i) = 0

C10_Witness ==
    \E i, j \in Calls :
        /\ CreationHasId(i) /\ CreationId(i) = JNum(0)
        /\ result[i].kind = "raised"
        /\ CreationHasId(j) /\ CreationId(j) = JStr("")
        /\ result[j].kind = "raised"

====
